---- MODULE Spec2Model ----
(***************************************************************************)
(* Model of the streaming COG conversion / upload pipeline of              *)
(* streamer/streamer.py: Streamer.__init__, Streamer.compute (producer     *)
(* thread), Streamer.upload (consumer thread), Streamer.run, and the two   *)
(* worker tasks COGNetCDF.datasets_to_cog and upload_to_s3.                *)
(* Spec explores whole runs for a few command lines; InitSpec explores     *)
(* Streamer.__init__ alone, for many command lines, signatures and states  *)
(* of the job directory and the queue directory. MpiSpec models the split  *)
(* of a task list over MPI processes in dea_cogger/cog_conv_app.py         *)
(* (mpi_convert, verify, _nth_by_mpi).                                     *)
(***************************************************************************)
EXTENDS Integers, Sequences, FiniteSets, TLC

\* ---------------------------------------------------------------- bounds
\* MAX_QUEUE_SIZE is 16 in streamer.py:71; it is scaled down here so that a
\* pending list longer than the queue capacity can be explored.
MAX_QUEUE_SIZE == 2
\* number of files the enumeration of the signature returns
NItems == 3
\* number of datasets (prefixes) stacked in one NetCDF file
NumDatasets == 2
\* number of consecutive invocations of main() that are explored
MaxRuns == 2
\* number of items of one run whose worker tasks meet a failure
MaxFaults == 1
\* max_workers of the ProcessPoolExecutor of run() (7 in the program)
WORKERS_POOL == 2
\* largest number of MPI processes and longest task list of dea-cogger
MaxRanks == 3
MaxTasks == 4

Items == 1 .. NItems
Prefixes == 1 .. NumDatasets
\* the sentinel put by compute() when there is no more work
None == 0

VARIABLES
    phase,            \* "idle" | "ready" (constructed) | "running" | "aborted"
    runs,             \* number of Streamer objects constructed so far
    opts,             \* command line options of the current invocation
    sig,              \* product, year and month of the current invocation
    env,              \* what the current invocation finds readable / creatable
    found,            \* the job control files __init__ found: log, cache exist
    source,           \* the files the enumeration of the signature finds
    items_all_file,   \* items_all_<signature>.log: does it exist, its lines
    items_all,        \* items_all of __init__
    paths,            \* job_file, items_all_file and self.queue_dir as resolved
    queue_exists,     \* the directory self.queue_dir exists
    job_file,         \* lines of streamer_job_control_<signature>.log
    log0,             \* lines of job_file when __init__ had finished
    prevClean,        \* the last run that returned had no option and no failure
    items,            \* self.items
    processed_queue,  \* the multiprocessing.Queue of run()
    prodPc,           \* position of the compute thread
    fut,              \* per item: state of its datasets_to_cog future
    tresult,          \* per item: outcome of its datasets_to_cog task
    finished,         \* futures of the batch that are done and not yet
                      \* yielded by as_completed, in the order they ended
    early,            \* those of them that were done when as_completed began
    work_ids,         \* tasks submitted to the executor that wait for a worker
    workers,          \* tasks a worker process of the executor is executing
    consPc,           \* position of the upload thread
    nget,             \* gets still to do of the current qsize() snapshot
    items_todo,       \* items_todo of upload()
    futures,          \* futures of upload(): items of the current batch
    pub,              \* per item: state of its upload_to_s3 future
    presult,          \* per item: what its upload_to_s3 task did
    staging,          \* items with a dataset directory under self.queue_dir
    nonePuts,         \* sentinels put on the queue in this run
    noneTaken,        \* the upload thread has taken a sentinel in this run
    mpi_cmd,          \* dea-cogger: the command the MPI processes execute
    job_size,         \* dea-cogger: MPI.COMM_WORLD.size
    tasks,            \* dea-cogger: the task list every process has read
    mpi_i,            \* dea-cogger, per rank: the index its loop is at
    handled,          \* dea-cogger, per rank: indexes of the tasks it has taken
    failed            \* dea-cogger: indexes of the tasks that failed

vars == <<phase, runs, opts, sig, env, found, source, items_all_file, items_all, paths,
          queue_exists, job_file, log0, prevClean, items, processed_queue, prodPc,
          fut, tresult, finished, early, work_ids, workers, consPc, nget,
          items_todo, futures, pub, staging, presult, nonePuts, noneTaken,
          mpi_cmd, job_size, tasks, mpi_i, handled, failed>>

prodVars == <<items, prodPc, fut, tresult, finished, early>>
poolVars == <<work_ids, workers>>
consVars == <<consPc, nget, items_todo, futures>>
\* what only __init__ assigns
initVars == <<opts, sig, env, found, source, items_all_file, items_all, paths, log0>>
\* the state of the MPI commands of dea-cogger, which streamer never touches
mpiVars  == <<mpi_cmd, job_size, tasks, mpi_i, handled, failed>>
ctlVars  == <<phase, runs, initVars, prevClean, queue_exists, mpiVars>>

\* ------------------------------------------------------------- helpers
Range(s) == { s[k] : k \in 1 .. Len(s) }

Min(a, b) == IF a < b THEN a ELSE b

\* the list returned by get_gridspec_files / get_indexed_files
ItemsAll == [k \in 1 .. NItems |-> k]

\* a slice that takes one entry less at its end
SliceShort(s, a, b) ==
    LET lo == Min(a, Len(s))
        hi == Min(b - 1, Len(s))
    IN  IF hi <= lo THEN << >> ELSE SubSeq(s, lo + 1, hi)

\* s[a:b] of Python for 0 <= a, 0 <= b (0-based, b exclusive)
Slice(s, a, b) ==
    LET lo == Min(a, Len(s))
        hi == Min(b, Len(s))
    IN  IF hi <= lo THEN << >> ELSE SubSeq(s, lo + 1, hi)

\* a check that only looks at the first line of the job control log
_path_check_first(file, file_list) == Len(file_list) > 0 /\ file_list[1] = file

\* _path_check(file, file_list): some line of the list names the same file
_path_check(file, file_list) == \E k \in 1 .. Len(file_list) : file_list[k] = file

\* a test that takes the range (0, 0) for no range
RangeGivenNonZero(file_range) == file_range # << >> /\ file_range # <<0, 0>>

\* "if file_range:" - a tuple is true when it is not empty, (0, 0) included
RangeGiven(file_range) == file_range # << >>

\* "if limit:" - None (written << >>) and 0 are both false
LimitGiven(limit) == limit # << >> /\ limit[1] # 0

\* a command line without any option: tuples are () and limit is None
NoOpts == [restart |-> FALSE, file_range |-> << >>, limit |-> << >>,
           reuse_full_list |-> FALSE, use_datacube |-> FALSE]

\* the command lines whose runs are explored
Options ==
    { NoOpts,
      [NoOpts EXCEPT !.restart = TRUE],
      [NoOpts EXCEPT !.limit = <<1>>],
      [NoOpts EXCEPT !.file_range = <<0, 1>>] }

\* the pairs given to --file_range and the numbers given to --limit
MaxIndex == NItems - 1
FileRanges == { <<a, b>> : a \in 0 .. MaxIndex, b \in 0 .. MaxIndex }
Limits == { <<l>> : l \in 0 .. MaxIndex }

\* the command lines given to __init__ when it is explored alone
AllOptions ==
    [restart : BOOLEAN, file_range : {<< >>} \cup FileRanges,
     limit : {<< >>} \cup Limits, reuse_full_list : BOOLEAN,
     use_datacube : {FALSE}]

\* signatures: year and month are None (written 0) when not given
Products == {"wofs_albers", "ls8_fc_albers"}
Years == {0, 2018}
Months == {0, 1, 2, 12}
Signatures == [product : Products, year : Years, month : Months]
Sig0 == [product |-> "wofs_albers", year |-> 2018, month |-> 1]

\* src: the source root (or the datacube index) can be read; job_dir: the job
\* directory exists; queue_ok: the mkdir or the purge of self.queue_dir works
Envs == [src : BOOLEAN, job_dir : BOOLEAN, queue_ok : BOOLEAN]
EnvOk == [src |-> TRUE, job_dir |-> TRUE, queue_ok |-> TRUE]

\* the command lines combined with every signature, and with every environment
SigOptions == { NoOpts, [NoOpts EXCEPT !.file_range = <<0, 1>>] }
EnvOptions ==
    [restart : BOOLEAN, file_range : {<< >>}, limit : {<< >>},
     reuse_full_list : BOOLEAN, use_datacube : BOOLEAN]

\* the command lines that take the list from the datacube index
IndexOptions ==
    { [NoOpts EXCEPT !.use_datacube = TRUE, !.reuse_full_list = r] : r \in BOOLEAN }

\* the invocations of __init__ that are explored
InitInputs ==
    (AllOptions \X {Sig0} \X {EnvOk})
        \cup (SigOptions \X Signatures \X {EnvOk})
        \cup (IndexOptions \X Signatures \X {EnvOk})
        \cup (EnvOptions \X {Sig0} \X Envs)

\* a file that does not exist
NoFile == [exists |-> FALSE, lines |-> << >>]

\* what an upload_to_s3 task did. st: "none" (not finished), "open" (it holds
\* the job control log open for its append), "raised" or "ran" (it reached its
\* last line); for a task that ran, sync tells whether "all", "some" or "none"
\* of the aws syncs succeeded, rm whether every removal of a dataset directory
\* succeeded, success is the flag tested before the append
NoResult == [st |-> "none", sync |-> "none", rm |-> FALSE, success |-> FALSE]
Raised   == [st |-> "raised", sync |-> "none", rm |-> FALSE, success |-> FALSE]

\* the names of the two job control files: product, then the year when there
\* is one, then the month when there are both
JobPath(base, s) ==
    [dir |-> "job_dir", base |-> base, product |-> s.product,
     year |-> IF s.year # 0 THEN <<s.year>> ELSE << >>,
     month |-> IF s.year # 0 /\ s.month # 0 THEN <<s.month>> ELSE << >>]

\* self.queue_dir: <product>_range_run_<start>_<end> or <product>_single_run
QueuePath(s, o) ==
    [dir |-> "queue_dir", product |-> s.product,
     run |-> IF RangeGiven(o.file_range) THEN "range_run" ELSE "single_run",
     range |-> o.file_range]

\* the three paths __init__ resolves
Resolve(s, o) ==
    [job_file |-> JobPath("streamer_job_control", s),
     items_all_file |-> JobPath("items_all", s),
     queue_dir |-> QueuePath(s, o)]

\* the state of a process that has not constructed a Streamer
NoStreamer ==
    /\ phase = "idle"
    /\ runs = 0
    /\ opts = NoOpts
    /\ sig = Sig0
    /\ env = EnvOk
    /\ found = [log |-> FALSE, cache |-> FALSE]
    /\ items_all = << >>
    /\ paths = Resolve(Sig0, NoOpts)
    /\ log0 = << >>
    /\ prevClean = FALSE
    /\ items = << >>
    /\ processed_queue = << >>
    /\ prodPc = "idle"
    /\ fut = [i \in Items |-> "none"]
    /\ tresult = [i \in Items |-> "none"]
    /\ finished = << >>
    /\ early = {}
    /\ work_ids = << >>
    /\ workers = {}
    /\ consPc = "idle"
    /\ nget = 0
    /\ items_todo = << >>
    /\ futures = {}
    /\ pub = [i \in Items |-> "none"]
    /\ presult = [i \in Items |-> NoResult]
    /\ nonePuts = 0
    /\ noneTaken = FALSE

\* MPI ranks are numbered from 0
AllRanks == 0 .. MaxRanks - 1

\* no MPI command of dea-cogger is executed
NoMpi ==
    /\ mpi_cmd = "none"
    /\ job_size = 1
    /\ tasks = << >>
    /\ mpi_i = [r \in AllRanks |-> 0]
    /\ handled = [r \in AllRanks |-> {}]
    /\ failed = {}

\* the first invocation for a signature: no job control file yet; the queue
\* directory may be there, with what a killed run left in it
Init ==
    /\ NoStreamer
    /\ NoMpi
    /\ source = ItemsAll
    /\ job_file = << >>
    /\ items_all_file = NoFile
    /\ queue_exists \in BOOLEAN
    /\ staging \in (IF queue_exists THEN SUBSET Items ELSE {{}})

\* the lists an earlier enumeration of the signature returned: files are added
\* to the source over time, none is removed
Prefixes_of(s) == { SubSeq(s, 1, n) : n \in 0 .. Len(s) }

\* job control logs left by earlier runs (a range run can repeat a line)
MaxLog == 2
Logs(src) ==
    { l \in UNION { [1 .. n -> Range(src)] : n \in 0 .. MaxLog } : TRUE }

\* any invocation for a signature: earlier invocations have left a job control
\* log, maybe a cached full list, and maybe a queue directory with some content
InitAny ==
    /\ NoStreamer
    /\ NoMpi
    /\ source \in { SubSeq(ItemsAll, 1, NItems - 1), ItemsAll }
    /\ job_file \in Logs(source)
    /\ items_all_file \in
          {NoFile} \cup { [exists |-> TRUE, lines |-> l] : l \in Prefixes_of(source) }
    /\ queue_exists \in BOOLEAN
    /\ staging \in (IF queue_exists THEN {{}, {1}} ELSE {{}})

\* the upload_to_s3 task of the item has met a failure
PubFault(i) == presult[i].st = "raised" \/ (presult[i].st = "ran" /\ ~ presult[i].success)

\* the datasets_to_cog task of the item has met a failure
TransFault(i) == tresult[i] \in {"failed", "raised"}

\* number of items of this run whose worker tasks met a failure
Faults == Cardinality({ i \in Items : TransFault(i) \/ PubFault(i) })

\* the fault bound lets a task of the item fail
MayFail(i) == TransFault(i) \/ Faults < MaxFaults

\* the lines appended to the job control log since __init__
Appended == { job_file[k] : k \in (Len(log0) + 1) .. Len(job_file) }

\* ------------------------------------------------- Streamer.__init__
\* a constructor that takes the first limit items of the full list, logged or
\* not, when a limit is given
PendingItemsLimitUnfiltered(full, items_done, o) ==
    IF RangeGiven(o.file_range)
    THEN Slice(full, o.file_range[1], o.file_range[2] + 1)
    ELSE IF LimitGiven(o.limit)
         THEN Slice(full, 0, o.limit[1])
         ELSE SelectSeq(full, LAMBDA it : ~ _path_check(it, items_done))

\* a constructor that never filters the full list by the job control log
PendingItemsUnfiltered(full, items_done, o) ==
    IF RangeGiven(o.file_range)
    THEN Slice(full, o.file_range[1], o.file_range[2] + 1)
    ELSE IF LimitGiven(o.limit) THEN Slice(full, 0, o.limit[1]) ELSE full

\* self.items as computed by __init__ from the full list, the lines of the
\* job control log and the options
PendingItems(full, items_done, o) ==
    IF RangeGiven(o.file_range)
    THEN Slice(full, o.file_range[1], o.file_range[2] + 1)
    ELSE LET todo == SelectSeq(full, LAMBDA it : ~ _path_check(it, items_done))
         IN  IF LimitGiven(o.limit) THEN Slice(todo, 0, o.limit[1]) ELSE todo

\* a restart that leaves the files of the signature in place
ClearedKept(restart, file, nofile) == file

\* "if restart:" the file is removed when it exists
Cleared(restart, file, nofile) == IF restart THEN nofile ELSE file

\* get_indexed_files / get_gridspec_files: os.walk ignores the error of a
\* root it cannot list and yields nothing, so the list is empty; the datacube
\* query raises instead (see EnumRaises)
Enumerate(src, e, o) == IF e.src THEN src ELSE << >>

\* datetime(year=y, month=m, day=1) raises ValueError unless the month is one
\* of 1 .. 12 (and the year one of 1 .. 9999)
DatetimeRaises(y, m) == ~ (y \in 1 .. 9999 /\ m \in 1 .. 12)

\* the first days that bound the time range of the query of
\* get_indexed_files, as <<year, month>>; no range without a year
QueryWindow(s) ==
    IF s.year # 0 /\ s.month # 0
    THEN [given |-> TRUE, lo |-> <<s.year, s.month>>, hi |-> <<s.year, s.month + 1>>]
    ELSE IF s.year # 0
    THEN [given |-> TRUE, lo |-> <<s.year, 1>>, hi |-> <<s.year + 1, 1>>]
    ELSE [given |-> FALSE, lo |-> << >>, hi |-> << >>]

\* get_indexed_files raises while it builds its query
WindowRaises(s) ==
    LET w == QueryWindow(s)
    IN  w.given /\ (DatetimeRaises(w.lo[1], w.lo[2]) \/ DatetimeRaises(w.hi[1], w.hi[2]))

\* get_indexed_files raises: the time range cannot be built, or Datacube(...)
\* or the search raises because the index cannot be reached
EnumRaises(e, o, s) == o.use_datacube /\ (WindowRaises(s) \/ ~ e.src)

\* a constructor that never reads the cached list
FromCacheNever(reuse, cache) == FALSE

\* items_all is read from items_all_file: reuse_full_list is given and the
\* file exists
FromCache(reuse, cache) == reuse /\ cache.exists

\* a constructor that leaves in the queue directory what it finds there
QueueAfterInitKept(content) == content

\* the content of self.queue_dir after "mkdir" or "rm -fR <queue_dir>/*"
QueueAfterInit(content) == {}

\* main() constructs a Streamer for signature s with options o in environment
\* e: restart removes the two job control files, the full list is read from
\* the cache or enumerated (and cached when asked), the pending list is
\* computed and the queue directory is created or emptied. An exception on the
\* way ends the process before run() is called.
Construct(o, s, e) ==
    /\ phase = "idle"
    /\ runs < MaxRuns
    /\ e.job_dir \/ (job_file = << >> /\ ~ items_all_file.exists)
    /\ LET log      == Cleared(o.restart, job_file, << >>)
           cache    == Cleared(o.restart, items_all_file, NoFile)
           cached   == FromCache(o.reuse_full_list, cache)
           full     == IF cached THEN cache.lines ELSE Enumerate(source, e, o)
           \* open(items_all_file, 'a') raises without a job directory
           toWrite  == o.reuse_full_list /\ ~ cache.exists
           listFail == (~ cached /\ EnumRaises(e, o, s)) \/ (toWrite /\ ~ e.job_dir)
           dirFail  == ~ e.queue_ok
       IN  /\ job_file' = log
           /\ log0' = log
           /\ items_all_file' = IF toWrite /\ ~ listFail
                                THEN [exists |-> TRUE, lines |-> full]
                                ELSE cache
           /\ items_all' = IF listFail THEN << >> ELSE full
           /\ items' = IF listFail THEN << >> ELSE PendingItems(full, log, o)
           /\ phase' = IF listFail \/ dirFail THEN "aborted" ELSE "ready"
           /\ queue_exists' = IF listFail \/ dirFail THEN queue_exists ELSE TRUE
           /\ staging' = IF listFail \/ dirFail THEN staging
                         ELSE QueueAfterInit(staging)
    /\ runs' = runs + 1
    /\ opts' = o
    /\ sig' = s
    /\ env' = e
    /\ found' = [log |-> job_file # << >>, cache |-> items_all_file.exists]
    /\ paths' = Resolve(s, o)
    /\ UNCHANGED <<prevClean, source, mpiVars>>
    /\ presult' = [i \in Items |-> NoResult]
    /\ processed_queue' = << >>
    /\ prodPc' = "idle"
    /\ consPc' = "idle"
    /\ fut' = [i \in Items |-> "none"]
    /\ finished' = << >>
    /\ early' = {}
    /\ work_ids' = << >>
    /\ workers' = {}
    /\ tresult' = [i \in Items |-> "none"]
    /\ pub' = [i \in Items |-> "none"]
    /\ nget' = 0
    /\ items_todo' = << >>
    /\ futures' = {}
    /\ nonePuts' = 0
    /\ noneTaken' = FALSE

\* ------------------------------------------------------ Streamer.run
\* run() creates the queue and starts the compute and the upload thread
RunStart ==
    /\ phase = "ready"
    /\ phase' = "running"
    /\ processed_queue' = << >>
    /\ prodPc' = "loop"
    /\ consPc' = "snapshot"
    /\ UNCHANGED <<runs, initVars, mpiVars, queue_exists, job_file, prevClean, items,
                   fut, tresult, finished, early, poolVars, nget, items_todo,
                   futures, pub, staging, presult, nonePuts, noneTaken>>

\* both threads are joined, the queue directory is removed and run() returns
RunJoin ==
    /\ phase = "running"
    /\ prodPc = "done"
    /\ consPc = "done"
    /\ phase' = "idle"
    /\ staging' = {}
    /\ queue_exists' = FALSE
    /\ prevClean' = (opts = NoOpts /\ Faults = 0)
    /\ UNCHANGED <<runs, initVars, mpiVars, job_file, items, processed_queue, prodPc,
                   fut, tresult, finished, early, poolVars, consPc, nget,
                   items_todo, futures, pub, presult, nonePuts, noneTaken>>

\* -------------------------------------------------- the hand-off queue
\* a queue created with one slot too many
QueueFullOffByOne(q) == Len(q) >= MAX_QUEUE_SIZE + 1

\* Queue(maxsize=MAX_QUEUE_SIZE): put blocks while maxsize entries are held
QueueFull(q) == Len(q) >= MAX_QUEUE_SIZE

\* ------------------------------------------- the ProcessPoolExecutor
\* the two kinds of task run() hands to its executor
CogTask(i) == <<"cog", i>>
S3Task(i) == <<"s3", i>>

\* an executor that starts a worker process for every task
SlotFreeAlways(ws) == TRUE

\* one of the max_workers processes of the executor is idle
SlotFree(ws) == Cardinality(ws) < WORKERS_POOL

\* the executor hands the waiting tasks to its idle worker processes, first
\* submitted first
RECURSIVE Schedule(_, _)
Schedule(ws, q) ==
    IF q # << >> /\ SlotFree(ws)
    THEN Schedule(ws \cup {Head(q)}, Tail(q))
    ELSE [workers |-> ws, work_ids |-> q]

\* executor.submit for each task of ts, in this order
Submit(ts) ==
    LET s == Schedule(workers, work_ids \o ts)
    IN  workers' = s.workers /\ work_ids' = s.work_ids

\* the worker process that executed task t takes the next waiting task
Release(t) ==
    LET s == Schedule(workers \ {t}, work_ids)
    IN  workers' = s.workers /\ work_ids' = s.work_ids

\* ---------------------------------------------------- Streamer.compute
\* a run_size computed from the capacity of the empty queue
RunSizeFixed(its, q) ==
    IF Len(its) > MAX_QUEUE_SIZE THEN MAX_QUEUE_SIZE ELSE Len(its)

\* run_size of one iteration of the while loop
RunSize(its, q) ==
    LET queue_capacity == MAX_QUEUE_SIZE - Len(q)
    IN  IF Len(its) > queue_capacity THEN queue_capacity ELSE Len(its)

\* the items taken by run_size calls of self.items.pop()
Popped(its, n) == { its[k] : k \in (Len(its) - n + 1) .. Len(its) }

\* the same items in the order of the calls of pop(): from the end of the list
PoppedSeq(its, n) == [k \in 1 .. n |-> its[Len(its) - k + 1]]

\* a compute loop that reads the last items of self.items and leaves them there
RemainingKept(its, n) == its

\* self.items after run_size calls of self.items.pop()
Remaining(its, n) == SubSeq(its, 1, Len(its) - n)

\* a compute loop that puts the items on the queue when it submits them
ProducerDispatchEarlyPut ==
    /\ phase = "running"
    /\ prodPc = "loop"
    /\ IF items = << >>
       THEN /\ prodPc' = "sentinel"
            /\ UNCHANGED <<items, fut, poolVars, processed_queue>>
       ELSE LET n == RunSize(items, processed_queue)
                popped == PoppedSeq(items, n)
            IN  /\ items' = Remaining(items, n)
                /\ fut' = [i \in Items |->
                             IF i \in Popped(items, n) THEN "running" ELSE fut[i]]
                /\ Submit([k \in 1 .. n |-> CogTask(popped[k])])
                /\ processed_queue' = processed_queue \o popped
                /\ prodPc' = IF n = 0 THEN "loop" ELSE "submitted"
    /\ UNCHANGED <<ctlVars, consVars, job_file, tresult, finished, early, pub,
                   staging, presult, nonePuts, noneTaken>>

\* one evaluation of the loop condition and, when there are items, the
\* submission of run_size datasets_to_cog tasks
ProducerDispatch ==
    /\ phase = "running"
    /\ prodPc = "loop"
    /\ IF items = << >>
       THEN /\ prodPc' = "sentinel"
            /\ UNCHANGED <<items, fut, poolVars>>
       ELSE LET n == RunSize(items, processed_queue)
                popped == PoppedSeq(items, n)
            IN  /\ items' = Remaining(items, n)
                /\ fut' = [i \in Items |->
                             IF i \in Popped(items, n) THEN "running" ELSE fut[i]]
                /\ Submit([k \in 1 .. n |-> CogTask(popped[k])])
                /\ prodPc' = IF n = 0 THEN "loop" ELSE "submitted"
    /\ UNCHANGED <<ctlVars, consVars, job_file, processed_queue, tresult,
                   finished, early, pub, staging, presult, nonePuts, noneTaken>>

\* as_completed(futures) is called: the futures that are done by now are
\* yielded first, in the iteration order of a set; the others are watched
ProducerWatch ==
    /\ phase = "running"
    /\ prodPc = "submitted"
    /\ prodPc' = "await"
    /\ early' = Range(finished)
    /\ UNCHANGED <<ctlVars, consVars, poolVars, job_file, items, processed_queue,
                   fut, tresult, finished, pub, staging, presult, nonePuts,
                   noneTaken>>

\* the done futures of the batch after the future of item i has ended: the
\* compute thread keeps them until as_completed yields them
Ended(fin, i) ==
    IF prodPc \in {"submitted", "await"} THEN Append(fin, i) ELSE fin

\* a datasets_to_cog task returns its file. r = "ok": every dataset was
\* converted; r = "failed": a mkdir or a band conversion failed, was logged and
\* the loop went on. made: some dataset directory of the item was created.
TransformReturn(i, r, made) ==
    /\ phase = "running"
    /\ fut[i] = "running"
    /\ CogTask(i) \in workers
    /\ r = "ok" => made
    /\ r = "failed" => MayFail(i)
    /\ fut' = [fut EXCEPT ![i] = "done"]
    /\ tresult' = [tresult EXCEPT ![i] = r]
    /\ finished' = Ended(finished, i)
    /\ Release(CogTask(i))
    /\ staging' = IF made THEN staging \cup {i} ELSE staging
    /\ UNCHANGED <<ctlVars, consVars, job_file, items, processed_queue, prodPc,
                   early, pub, presult, nonePuts, noneTaken>>

\* a datasets_to_cog task raises (the NetCDF file cannot be opened, or the
\* dataset yaml cannot be written)
TransformRaise(i) ==
    /\ phase = "running"
    /\ fut[i] = "running"
    /\ CogTask(i) \in workers
    /\ MayFail(i)
    /\ fut' = [fut EXCEPT ![i] = "done"]
    /\ tresult' = [tresult EXCEPT ![i] = "raised"]
    /\ finished' = Ended(finished, i)
    /\ Release(CogTask(i))
    /\ UNCHANGED <<ctlVars, consVars, job_file, items, processed_queue, prodPc,
                   early, pub, staging, presult, nonePuts, noneTaken>>

\* an as_completed that yields the done futures in the order of submission
YieldedInSubmitOrder(i) ==
    /\ fut[i] = "done"
    /\ \A j \in Items : j > i => fut[j] \notin {"running", "done"}

\* as_completed yields the future of item i next: one of those that were done
\* when it was called, in any order, and after them the others in the order
\* in which they ended
Yielded(i) ==
    IF early # {} THEN i \in early
    ELSE finished # << >> /\ Head(finished) = i

\* the next future of as_completed: its result is put on the queue, or its
\* exception is raised in the compute thread, which ends the thread
ProducerCollect(i) ==
    /\ phase = "running"
    /\ prodPc = "await"
    /\ fut[i] = "done"
    /\ Yielded(i)
    /\ IF tresult[i] = "raised"
       THEN /\ prodPc' = "crashed"
            /\ UNCHANGED processed_queue
       ELSE /\ ~ QueueFull(processed_queue)
            /\ processed_queue' = Append(processed_queue, i)
            /\ UNCHANGED prodPc
    /\ fut' = [fut EXCEPT ![i] = "collected"]
    /\ finished' = SelectSeq(finished, LAMBDA j : j # i)
    /\ early' = early \ {i}
    /\ UNCHANGED <<ctlVars, consVars, poolVars, job_file, items, tresult, pub,
                   staging, presult, nonePuts, noneTaken>>

\* a compute loop that does not wait for the futures of its batch
BatchCollectedAlways == TRUE

\* the loop over as_completed(futures) has ended: every future of the batch
\* was yielded and its result put on the queue
BatchCollected == \A i \in Items : fut[i] \in {"none", "collected"}

\* a compute loop that does not test self.items again after a batch
ProducerNextNoLoop ==
    /\ phase = "running"
    /\ prodPc = "await"
    /\ \A i \in Items : fut[i] \in {"none", "collected"}
    /\ prodPc' = "sentinel"
    /\ UNCHANGED <<ctlVars, consVars, poolVars, job_file, items, processed_queue,
                   fut, tresult, finished, early, pub, staging, presult, nonePuts,
                   noneTaken>>

\* as_completed is exhausted: back to the loop condition
ProducerNext ==
    /\ phase = "running"
    /\ prodPc = "await"
    /\ BatchCollected
    /\ prodPc' = "loop"
    /\ UNCHANGED <<ctlVars, consVars, poolVars, job_file, items, processed_queue,
                   fut, tresult, finished, early, pub, staging, presult, nonePuts,
                   noneTaken>>

\* a compute thread that ends without putting the sentinel
ProducerSentinelNoPut ==
    /\ phase = "running"
    /\ prodPc = "sentinel"
    /\ prodPc' = "done"
    /\ nonePuts' = nonePuts + 1
    /\ UNCHANGED <<ctlVars, consVars, poolVars, job_file, items, processed_queue,
                   fut, tresult, finished, early, pub, staging, presult, noneTaken>>

\* processed_queue.put(None)
ProducerSentinel ==
    /\ phase = "running"
    /\ prodPc = "sentinel"
    /\ ~ QueueFull(processed_queue)
    /\ processed_queue' = Append(processed_queue, None)
    /\ nonePuts' = nonePuts + 1
    /\ prodPc' = "done"
    /\ UNCHANGED <<ctlVars, consVars, poolVars, job_file, items, fut, tresult,
                   finished, early, pub, staging, presult, noneTaken>>

\* ----------------------------------------------------- Streamer.upload
\* every upload_to_s3 future of the current batch has finished
BatchFinished == \A i \in futures : pub[i] = "done"

\* processed_queue.qsize() is read; with an empty queue the batch is empty,
\* wait([]) returns at once and the loop starts over
ConsumerSnapshot ==
    /\ phase = "running"
    /\ consPc = "snapshot"
    /\ nget' = Len(processed_queue)
    /\ items_todo' = << >>
    /\ futures' = {}
    /\ consPc' = IF Len(processed_queue) = 0 THEN "snapshot" ELSE "get"
    /\ UNCHANGED <<ctlVars, prodVars, poolVars, job_file, processed_queue, pub,
                   staging, presult, nonePuts, noneTaken>>

\* an upload thread that puts a copy of the entry it takes back on the queue
ConsumerGetRequeue ==
    /\ phase = "running"
    /\ consPc = "get"
    /\ nget > 0
    /\ processed_queue # << >>
    /\ ~ QueueFull(processed_queue)
    /\ items_todo' = Append(items_todo, Head(processed_queue))
    /\ processed_queue' = Append(processed_queue, Head(processed_queue))
    /\ noneTaken' = (noneTaken \/ Head(processed_queue) = None)
    /\ nget' = nget - 1
    /\ consPc' = IF nget = 1 THEN "dispatch" ELSE "get"
    /\ UNCHANGED <<ctlVars, prodVars, poolVars, job_file, futures, pub, staging, presult,
                   nonePuts>>

\* one processed_queue.get(block=True) of the list comprehension
ConsumerGet ==
    /\ phase = "running"
    /\ consPc = "get"
    /\ nget > 0
    /\ processed_queue # << >>
    /\ items_todo' = Append(items_todo, Head(processed_queue))
    /\ processed_queue' = Tail(processed_queue)
    /\ noneTaken' = (noneTaken \/ Head(processed_queue) = None)
    /\ nget' = nget - 1
    /\ consPc' = IF nget = 1 THEN "dispatch" ELSE "get"
    /\ UNCHANGED <<ctlVars, prodVars, poolVars, job_file, futures, pub, staging, presult,
                   nonePuts>>

\* one iteration of "while items_todo": the front entry is popped; the
\* sentinel leads to the final wait, an item is submitted to upload_to_s3
ConsumerDispatch ==
    /\ phase = "running"
    /\ consPc = "dispatch"
    /\ IF items_todo = << >>
       THEN /\ consPc' = "wait"
            /\ UNCHANGED <<items_todo, futures, pub, poolVars>>
       ELSE LET item == Head(items_todo)
            IN  /\ items_todo' = Tail(items_todo)
                /\ IF item = None
                   THEN /\ consPc' = "exitwait"
                        /\ UNCHANGED <<futures, pub, poolVars>>
                   ELSE /\ futures' = futures \cup {item}
                        /\ pub' = [pub EXCEPT ![item] = "run"]
                        /\ Submit(<<S3Task(item)>>)
                        /\ UNCHANGED consPc
    /\ UNCHANGED <<ctlVars, prodVars, job_file, processed_queue, nget, staging,
                   presult, nonePuts, noneTaken>>

\* an upload loop that takes the next snapshot without waiting for its tasks
ConsumerWaitNoWait ==
    /\ phase = "running"
    /\ consPc = "wait"
    /\ consPc' = "snapshot"
    /\ UNCHANGED <<ctlVars, prodVars, poolVars, job_file, processed_queue, nget,
                   items_todo, futures, pub, staging, presult, nonePuts, noneTaken>>

\* wait(futures) at the end of a batch returns
ConsumerWait ==
    /\ phase = "running"
    /\ consPc = "wait"
    /\ BatchFinished
    /\ consPc' = "snapshot"
    /\ UNCHANGED <<ctlVars, prodVars, poolVars, job_file, processed_queue, nget,
                   items_todo, futures, pub, staging, presult, nonePuts, noneTaken>>

\* an upload thread that returns at the sentinel without waiting
ConsumerReturnNoWait ==
    /\ phase = "running"
    /\ consPc = "exitwait"
    /\ consPc' = "done"
    /\ UNCHANGED <<ctlVars, prodVars, poolVars, job_file, processed_queue, nget,
                   items_todo, futures, pub, staging, presult, nonePuts, noneTaken>>

\* wait(futures) after the sentinel returns and upload() returns
ConsumerReturn ==
    /\ phase = "running"
    /\ consPc = "exitwait"
    /\ BatchFinished
    /\ consPc' = "done"
    /\ UNCHANGED <<ctlVars, prodVars, poolVars, job_file, processed_queue, nget,
                   items_todo, futures, pub, staging, presult, nonePuts, noneTaken>>

\* ------------------------------------------------------- upload_to_s3
\* what the three commands run for one dataset did
Outcome == [xml : BOOLEAN, sync : BOOLEAN, rm : BOOLEAN]

\* a loop that sets success anew for every dataset: only the last one counts
UploadLoopReset(index, success, outs) ==
    outs[NumDatasets].xml /\ outs[NumDatasets].sync /\ outs[NumDatasets].rm

\* the success flag after the iterations index .. NumDatasets of the loop over
\* file_names: each failed command clears it, nothing sets it again
RECURSIVE UploadLoop(_, _, _)
UploadLoop(index, success, outs) ==
    IF index > NumDatasets
    THEN success
    ELSE LET s1 == IF outs[index].xml THEN success ELSE FALSE
             s2 == IF outs[index].sync THEN s1 ELSE FALSE
             s3 == IF outs[index].rm THEN s2 ELSE FALSE
         IN  UploadLoop(index + 1, s3, outs)

\* how many of the aws syncs of the item succeeded
SyncSummary(outs) ==
    IF \A p \in Prefixes : outs[p].sync THEN "all"
    ELSE IF \E p \in Prefixes : outs[p].sync THEN "some" ELSE "none"

\* an upload that skips the removal of a dataset whose sync failed
DirLeftOnSyncFailure(present, outs) ==
    present /\ \E p \in Prefixes : ~ outs[p].rm \/ ~ outs[p].sync

\* a dataset directory of the item is left: "rm -fR" runs for every dataset,
\* whatever the sync did, and a directory stays only when its removal failed
DirLeft(present, outs) == present /\ \E p \in Prefixes : ~ outs[p].rm

\* a log opened with mode 'w': the write replaces what the file held
WriteLine(lines, file) == <<file>>

\* with open(job_file, 'a') as f: f.write(file + '\n')
AppendLine(lines, file) == Append(lines, file)

\* the result of an upload_to_s3 task whose loop gave these outcomes
LoopResult(st, outs) ==
    [st |-> st,
     sync |-> SyncSummary(outs),
     rm |-> \A p \in Prefixes : outs[p].rm,
     success |-> UploadLoop(1, TRUE, outs)]

\* an upload_to_s3 task from its first line to "if success": the loop over
\* the datasets. When success is cleared the task ends here; when it is still
\* set the task opens the job control log for its append, which raises when
\* there is no job directory. No sync succeeds when no dataset directory of
\* the item exists.
Publish(i, outs) ==
    /\ phase = "running"
    /\ pub[i] = "run"
    /\ S3Task(i) \in workers
    /\ presult[i].st = "none"
    /\ i \notin staging => \A p \in Prefixes : ~ outs[p].sync
    /\ ~ UploadLoop(1, TRUE, outs) => MayFail(i)
    /\ LET success == UploadLoop(1, TRUE, outs)
       IN  IF success /\ env.job_dir
           THEN /\ presult' = [presult EXCEPT ![i] = LoopResult("open", outs)]
                /\ UNCHANGED <<pub, poolVars>>
           ELSE /\ presult' = [presult EXCEPT ![i] =
                                 IF success THEN Raised ELSE LoopResult("ran", outs)]
                /\ pub' = [pub EXCEPT ![i] = "done"]
                /\ Release(S3Task(i))
    /\ staging' = IF DirLeft(i \in staging, outs) THEN staging ELSE staging \ {i}
    /\ UNCHANGED <<ctlVars, prodVars, consVars, job_file, processed_queue,
                   nonePuts, noneTaken>>

\* the line of the item is written and the log is closed: the task has ended
PublishAppend(i) ==
    /\ phase = "running"
    /\ pub[i] = "run"
    /\ presult[i].st = "open"
    /\ job_file' = AppendLine(job_file, i)
    /\ presult' = [presult EXCEPT ![i].st = "ran"]
    /\ pub' = [pub EXCEPT ![i] = "done"]
    /\ Release(S3Task(i))
    /\ UNCHANGED <<ctlVars, prodVars, consVars, processed_queue, staging,
                   nonePuts, noneTaken>>

\* get_unstacked_names raises inside the task (the NetCDF file cannot be
\* opened): the future holds the exception, nobody reads it, nothing is
\* uploaded, removed or appended
PublishRaise(i) ==
    /\ phase = "running"
    /\ pub[i] = "run"
    /\ S3Task(i) \in workers
    /\ presult[i].st = "none"
    /\ MayFail(i)
    /\ pub' = [pub EXCEPT ![i] = "done"]
    /\ presult' = [presult EXCEPT ![i] = Raised]
    /\ Release(S3Task(i))
    /\ UNCHANGED <<ctlVars, prodVars, consVars, job_file, processed_queue,
                   staging, nonePuts, noneTaken>>

\* ------------------------------------------------------ specification
Producer ==
    \/ ProducerDispatch
    \/ ProducerWatch
    \/ \E i \in Items : ProducerCollect(i)
    \/ ProducerNext
    \/ ProducerSentinel

Consumer ==
    \/ ConsumerSnapshot
    \/ ConsumerGet
    \/ ConsumerDispatch
    \/ ConsumerWait
    \/ ConsumerReturn

TransformWorker(i) ==
    \/ \E r \in {"ok", "failed"}, made \in BOOLEAN : TransformReturn(i, r, made)
    \/ TransformRaise(i)

PublishWorker(i) ==
    \/ \E outs \in [Prefixes -> Outcome] : Publish(i, outs)
    \/ PublishAppend(i)
    \/ PublishRaise(i)

Main ==
    \/ \E o \in Options : Construct(o, Sig0, EnvOk)
    \/ RunStart
    \/ RunJoin

Next ==
    \/ Main
    \/ Producer
    \/ Consumer
    \/ \E i \in Items : TransformWorker(i)
    \/ \E i \in Items : PublishWorker(i)

Spec == Init /\ [][Next]_vars

\* a step of a started run: of run() itself, of one of its two threads or of
\* a worker task of the executor
RunStep ==
    \/ RunStart
    \/ RunJoin
    \/ Producer
    \/ Consumer
    \/ \E i \in Items : TransformWorker(i)
    \/ \E i \in Items : PublishWorker(i)

\* the threads of run() and the worker processes are scheduled: as long as one
\* of them can take a step, one of them does; whether main() is invoked again
\* is left open
Fairness == WF_vars(RunStep)

LiveSpec == Init /\ [][Next]_vars /\ Fairness

\* __init__ alone: one invocation of main() up to the call of run()
InitNext ==
    \/ \E c \in InitInputs : Construct(c[1], c[2], c[3])
    \/ RunStart

InitSpec == InitAny /\ [][InitNext]_vars

\* ------------------------------------------- dea-cogger under MPI
\* what streamer.py works on
streamerVars ==
    <<phase, runs, initVars, prevClean, queue_exists, prodVars, consVars,
      poolVars, job_file, processed_queue, pub, staging, presult, nonePuts,
      noneTaken>>

\* a split that gives every task to the rank after the one it belongs to
AssignedShifted(i, size, rank) == (i + 1) % size = rank

\* if i % job_size == job_rank
Assigned(i, size, rank) == i % size = rank

\* the elements iter_wrapper lets through in verify: all of them for a single
\* process (iter or tqdm), those of _nth_by_mpi otherwise
Wrapped(i, size, rank) == IF size = 1 THEN TRUE ELSE Assigned(i, size, rank)

\* a task list of k rows; only the position of a row matters to the split
TaskList(k) == [j \in 1 .. k |-> j]

\* job_size processes have returned from _mpi_init and have read the same
\* task list; mpi-convert exits at once when the list is empty
MpiInit ==
    /\ NoStreamer
    /\ source = ItemsAll
    /\ job_file = << >>
    /\ items_all_file = NoFile
    /\ queue_exists = FALSE
    /\ staging = {}
    /\ mpi_cmd \in {"mpi-convert", "verify"}
    /\ job_size \in 1 .. MaxRanks
    /\ tasks \in { TaskList(k) : k \in 0 .. MaxTasks }
    /\ mpi_i = [r \in AllRanks |-> 0]
    /\ handled = [r \in AllRanks |-> {}]
    /\ failed = {}

\* one iteration of the loop over enumerate(tasks) in mpi_convert on the
\* process of this rank: its own tasks are converted; when _convert_cog raises
\* (ok is false) the exception is logged and the loop goes on
MpiConvert(rank, ok) ==
    /\ mpi_cmd = "mpi-convert"
    /\ rank < job_size
    /\ mpi_i[rank] < Len(tasks)
    /\ LET i == mpi_i[rank]
       IN  IF Assigned(i, job_size, rank)
           THEN /\ handled' = [handled EXCEPT ![rank] = @ \cup {i}]
                /\ failed' = IF ok THEN failed ELSE failed \cup {i}
           ELSE /\ ok
                /\ UNCHANGED <<handled, failed>>
    /\ mpi_i' = [mpi_i EXCEPT ![rank] = @ + 1]
    /\ UNCHANGED <<streamerVars, mpi_cmd, job_size, tasks>>

\* one step of the loop over iter_wrapper(gtiff_file_list) in verify on the
\* process of this rank: the files the wrapper lets through are validated;
\* a broken file (ok is false) is remembered and the loop goes on
Verify(rank, ok) ==
    /\ mpi_cmd = "verify"
    /\ rank < job_size
    /\ mpi_i[rank] < Len(tasks)
    /\ LET i == mpi_i[rank]
       IN  IF Wrapped(i, job_size, rank)
           THEN /\ handled' = [handled EXCEPT ![rank] = @ \cup {i}]
                /\ failed' = IF ok THEN failed ELSE failed \cup {i}
           ELSE /\ ok
                /\ UNCHANGED <<handled, failed>>
    /\ mpi_i' = [mpi_i EXCEPT ![rank] = @ + 1]
    /\ UNCHANGED <<streamerVars, mpi_cmd, job_size, tasks>>

\* the MPI processes run independently of each other
MpiRank(rank) ==
    \/ \E ok \in BOOLEAN : MpiConvert(rank, ok)
    \/ \E ok \in BOOLEAN : Verify(rank, ok)

MpiNext == \E rank \in AllRanks : MpiRank(rank)

MpiSpec == MpiInit /\ [][MpiNext]_vars

\* ------------------------------------------------------------- claims
\* number of sentinels among the entries of a sequence
RECURSIVE CountNone(_)
CountNone(s) ==
    IF s = << >> THEN 0
    ELSE (IF Head(s) = None THEN 1 ELSE 0) + CountNone(Tail(s))

\* C1: in every reachable state the hand-off queue holds at most
\* MAX_QUEUE_SIZE entries, item identifiers and sentinel together.
C1_QueueBounded == Len(processed_queue) <= MAX_QUEUE_SIZE

\* the compute thread is about to put the sentinel on a queue that is full
C1_Witness ==
    /\ prodPc = "sentinel"
    /\ Len(processed_queue) = MAX_QUEUE_SIZE

ThreadsDone == prodPc = "done" /\ consPc = "done"

\* a datasets_to_cog task of this run has raised instead of returning
SomeTransformRaised == \E i \in Items : tresult[i] = "raised"

Pending == Range(PendingItems(ItemsAll, log0, opts))

\* the items of this run one of whose worker tasks met a failure
Failed == { i \in Items : TransFault(i) \/ PubFault(i) }

\* the upload_to_s3 task of the item reached its last line
Ran(i) == presult[i].st = "ran"

\* C4: an item is appended to the job control log by its upload_to_s3 task
\* only if every aws sync of the item succeeded; when one sync failed the item
\* is not appended, also when other syncs of the item succeeded.
C4_AppendNeedsAllTransfers ==
    \A i \in Items :
        /\ (Ran(i) /\ presult[i].sync # "all") => i \notin Appended
        /\ i \in Appended => (Ran(i) /\ presult[i].sync = "all")

\* an upload in which one sync failed and another succeeded has ended
C4_Witness ==
    \E i \in Items :
        /\ pub[i] = "done"
        /\ Ran(i)
        /\ presult[i].sync = "some"
        /\ i \notin Appended

\* C5: after a run an item of the run is in the job control log if and only if
\* its artifacts were fully produced (datasets_to_cog met no failure) and fully
\* transferred (every aws sync succeeded).
C5_LoggedIffProducedAndTransferred ==
    (phase = "idle" /\ runs > 0) =>
        \A i \in Pending :
            (i \in Appended) <=>
                (tresult[i] = "ok" /\ Ran(i) /\ presult[i].sync = "all")

\* C6: in a run without restart, range and limit, self.items is the full list
\* without the items of the job control log, in full-list order, and no item
\* of the log is submitted to datasets_to_cog.
C6_PendingIsUncheckpointed ==
    (runs > 0 /\ opts = NoOpts) =>
        /\ phase = "ready" =>
              items = SelectSeq(ItemsAll, LAMBDA it : it \notin Range(job_file))
        /\ \A i \in Items : fut[i] # "none" => i \notin Range(log0)

\* a run without options works on a part of the list, the rest being logged
C6_Witness ==
    /\ phase = "running"
    /\ opts = NoOpts
    /\ log0 # << >>
    /\ \E i \in Items : fut[i] # "none"

\* C7: after a run without restart, range and limit that returned without any
\* failure, a next run without restart and range has nothing pending: it
\* submits no task and appends nothing.
C7_SecondRunEmpty ==
    (prevClean /\ phase # "idle" /\ ~ opts.restart /\ opts.file_range = << >>) =>
        /\ items = << >>
        /\ \A i \in Items : fut[i] = "none" /\ pub[i] = "none"
        /\ job_file = log0

\* such a second run has gone through both threads
C7_Witness ==
    /\ prevClean
    /\ phase = "running"
    /\ ~ opts.restart
    /\ opts.file_range = << >>
    /\ ThreadsDone

\* C8: when the transform of an item fails the failure is caught, and the item
\* is never put on the queue, never submitted to upload_to_s3 and never
\* appended to the job control log in that run.
C8_FailedTransformDropped ==
    /\ prodPc # "crashed"
    /\ \A i \in Items :
          TransFault(i) =>
              /\ i \notin Range(processed_queue)
              /\ i \notin Range(items_todo)
              /\ pub[i] = "none"
              /\ i \notin Appended

\* C9: whatever items fail in transform or upload, the compute thread goes on
\* to the sentinel, the run that returns has appended exactly the pending items
\* that did not fail, and a next run without options has exactly the failed
\* items pending.
C9_FailuresOnlyDropItems ==
    /\ prodPc # "crashed"
    /\ (phase = "idle" /\ runs > 0) =>
          /\ Appended = Pending \ Failed
          /\ opts = NoOpts => Range(PendingItems(ItemsAll, job_file, NoOpts)) = Failed

Constructed == phase \in {"ready", "running"}

\* the environment lacks nothing __init__ or run() needs
EnvGood(e) == e.src /\ e.job_dir /\ e.queue_ok

\* C11: when the source root cannot be read, or the job directory or the queue
\* directory cannot be created, the invocation aborts in __init__, before
\* run() starts the two threads, and leaves the job control log as it was.
C11_FatalPreconditionsAbort ==
    [][(phase = "idle" /\ phase' # "idle" /\ ~ EnvGood(env')) =>
          (phase' = "aborted" /\ job_file' = job_file)]_vars

\* the full list as the enumeration returns it now
Enumerated == Enumerate(source, env, opts)

\* the lines of a list that are not in the job control log, in list order
NotLogged(full, log) == SelectSeq(full, LAMBDA it : it \notin Range(log))

\* the first n entries of a list, all of them when it has fewer
FirstN(s, n) == [k \in 1 .. Min(n, Len(s)) |-> s[k]]

\* C12: with restart the job control log and the cached full list are removed
\* before anything is read: whatever they held, the log is empty, the full
\* list is the one enumerated from the source now, and the pending list is
\* computed from it with nothing counted as done.
C12_RestartRecomputes ==
    (phase # "idle" /\ opts.restart) =>
        /\ log0 = << >>
        /\ phase = "ready" => job_file = << >>
        /\ Constructed =>
              /\ items_all = Enumerated
              /\ items_all_file = IF opts.reuse_full_list
                                  THEN [exists |-> TRUE, lines |-> Enumerated]
                                  ELSE NoFile
              /\ opts.file_range = << >> =>
                    items = IF LimitGiven(opts.limit)
                            THEN FirstN(Enumerated, opts.limit[1])
                            ELSE Enumerated

\* a restart found a log and a cached list, has enumerated the source again
\* and has all of its files pending
C12_Witness ==
    /\ phase = "ready"
    /\ opts.restart
    /\ opts.reuse_full_list
    /\ found.log
    /\ found.cache
    /\ Len(items_all) = NItems
    /\ items = ItemsAll
    /\ items_all_file.lines = ItemsAll

\* C13: for a full list of n items and a range (i, j) with 0 <= i <= j < n,
\* self.items holds the j - i + 1 items at the positions i .. j of the full
\* list, and none of them is in self.items of a range (j + 1, k).
C13_RangeSlice ==
    (Constructed /\ opts.file_range # << >>) =>
        LET i == opts.file_range[1]
            j == opts.file_range[2]
        IN  (i <= j /\ j < Len(items_all)) =>
                /\ Len(items) = j - i + 1
                /\ \A k \in 1 .. Len(items) : items[k] = items_all[i + k]
                /\ \A r \in FileRanges :
                      r[1] = j + 1 =>
                          Range(items) \cap
                            Range(PendingItems(items_all, log0,
                                               [opts EXCEPT !.file_range = r])) = {}

\* a range with i < j inside a list of NItems items, followed by another range
C13_Witness ==
    /\ phase = "ready"
    /\ opts.file_range = <<0, 1>>
    /\ Len(items_all) = NItems
    /\ items = <<items_all[1], items_all[2]>>
    /\ PendingItems(items_all, log0, [opts EXCEPT !.file_range = <<2, 2>>])
          = <<items_all[3]>>

\* items_all[a : b + 1] for 0 <= a, 0 <= b, written position by position
RangeOf(full, a, b) ==
    LET lo == Min(a, Len(full))
        hi == Min(b + 1, Len(full))
    IN  [k \in 1 .. (IF hi > lo THEN hi - lo ELSE 0) |-> full[lo + k]]

\* C14: a range that is given decides alone, (0, 0) included: self.items is
\* the slice of the full list whatever the job control log holds and whatever
\* the limit is; only without a range the full list is filtered by the log and
\* cut to the limit.
C14_RangeTakesPrecedence ==
    Constructed =>
        IF opts.file_range # << >>
        THEN items = RangeOf(items_all, opts.file_range[1], opts.file_range[2])
        ELSE /\ Len(items) <= Len(NotLogged(items_all, log0))
             /\ \A k \in 1 .. Len(items) : items[k] = NotLogged(items_all, log0)[k]
             /\ opts.limit = << >> => items = NotLogged(items_all, log0)

\* the range (0, 0) with a limit, the first item of the list being logged
C14_Witness ==
    /\ phase = "ready"
    /\ opts.file_range = <<0, 0>>
    /\ opts.limit = <<2>>
    /\ items_all # << >>
    /\ items_all[1] \in Range(log0)
    /\ items = <<items_all[1]>>

\* C15: with limit L and no range, self.items is the first min(L, m) of the m
\* items of the full list that are not in the job control log, in list order;
\* after a run in which every one of them succeeded the log has gained these
\* items, each once.
C15_LimitTruncates ==
    (opts.file_range = << >> /\ opts.limit # << >>) =>
        LET todo == NotLogged(items_all, log0)
            L    == opts.limit[1]
        IN  /\ Constructed =>
                  Range(items) \subseteq Range(FirstN(todo, L))
            /\ phase = "ready" => items = FirstN(todo, L)
            /\ (phase = "idle" /\ runs > 0 /\ Faults = 0) =>
                  /\ Appended = Range(FirstN(todo, L))
                  /\ Len(job_file) = Len(log0) + Cardinality(Appended)

\* C16: for two distinct signatures the job control log, the cached full list
\* and the queue directory that __init__ resolves are three distinct paths, so
\* that two invocations with different signatures share no file.
C16_PathsDistinct ==
    phase # "idle" =>
        \A s \in Signatures \ {sig} :
            /\ Resolve(s, opts).job_file # paths.job_file
            /\ Resolve(s, opts).items_all_file # paths.items_all_file
            /\ Resolve(s, opts).queue_dir # paths.queue_dir

\* ------------------------------- claims on the queue directory and the log
\* a step inside a run: neither __init__ nor the return of run()
InRun == phase = "running" /\ phase' = "running"

\* run() starts on an empty directory, and during the run only the task of an
\* item creates or removes the directory of the item
OnlyTasksTouchStaging ==
    /\ (phase = "ready" /\ phase' = "running") => (queue_exists' /\ staging' = {})
    /\ InRun =>
          \A i \in Items :
              /\ (i \in staging' /\ i \notin staging) =>
                     (fut[i] = "running" /\ fut'[i] = "done")
              /\ (i \in staging /\ i \notin staging') =>
                     (pub[i] = "run" /\ presult[i].st = "none"
                         /\ presult'[i].st # "none")

\* C17: when run() starts the two threads self.queue_dir exists and is empty,
\* whatever was in it before; during the run a directory of an item appears
\* only by a step of its datasets_to_cog task and disappears only by a step of
\* its upload_to_s3 task; when run() has returned the directory is gone.
C17_StagingLifecycle ==
    /\ [](phase = "ready" => (queue_exists /\ staging = {}))
    /\ [](phase = "running" => queue_exists)
    /\ []((phase = "idle" /\ runs > 0) => (~ queue_exists /\ staging = {}))
    /\ [][OnlyTasksTouchStaging]_vars

\* a run has returned in which directories were created and removed
C17_Witness ==
    /\ phase = "idle"
    /\ runs > 0
    /\ ~ queue_exists
    /\ \A i \in Items : tresult[i] = "ok" /\ Ran(i) /\ presult[i].rm

\* one list is the beginning of the other
IsPrefix(s, t) == Len(s) <= Len(t) /\ SubSeq(t, 1, Len(s)) = s

\* a step after __init__ keeps the lines of the log and what was read from it
LogStep ==
    phase \in {"ready", "running"} =>
        /\ IsPrefix(job_file, job_file')
        /\ log0' = log0
        /\ Range(items') \subseteq Range(items)

\* C18: from the end of __init__, which has read the job control log, to the
\* return of run(), every step leaves the log as it is or adds lines at its
\* end; the lines read by __init__ are not read again and self.items gains
\* no item.
C18_LogAppendOnly == [][LogStep]_vars

\* a run that started with lines in the log has appended to it
C18_Witness ==
    /\ phase = "running"
    /\ log0 # << >>
    /\ Len(job_file) > Len(log0)
    /\ IsPrefix(log0, job_file)

\* the upload_to_s3 tasks that hold the job control log open
Appending == { i \in Items : presult[i].st = "open" }

\* C19: the appends of the upload_to_s3 tasks are serialized: at no time do
\* two tasks hold the job control log open for their append.
C19_AppendsSerialized == Cardinality(Appending) <= 1

\* number of entries of a sequence that are equal to x
RECURSIVE Count(_, _)
Count(x, s) ==
    IF s = << >> THEN 0
    ELSE (IF Head(s) = x THEN 1 ELSE 0) + Count(x, Tail(s))

\* the lines the run has added to the job control log, in order
AppendedLines == SubSeq(job_file, Len(log0) + 1, Len(job_file))

\* a step inside a run moves no task of an item back and adds an item to the
\* queue or to the log only as the one step of its task that does so
OncePerItem ==
    InRun =>
        \A i \in Items :
            /\ fut[i] = "running" => fut'[i] \in {"running", "done"}
            /\ fut[i] = "done" => fut'[i] \in {"done", "collected"}
            /\ fut[i] = "collected" => fut'[i] = "collected"
            /\ Count(i, processed_queue') > Count(i, processed_queue) =>
                   (fut[i] = "done" /\ fut'[i] = "collected")
            /\ pub[i] = "run" => pub'[i] \in {"run", "done"}
            /\ pub[i] = "done" => pub'[i] = "done"
            /\ Count(i, AppendedLines') > Count(i, AppendedLines) =>
                   (pub[i] = "run" /\ pub'[i] = "done")

\* C20: within a run an item is submitted to datasets_to_cog at most once, put
\* on the queue at most once, submitted to upload_to_s3 at most once and
\* appended to the job control log at most once, and it is appended only after
\* its upload_to_s3 task went through with success set.
C20_AtMostOnce ==
    /\ [](\A i \in Items :
            /\ Count(i, processed_queue) + Count(i, items_todo) <= 1
            /\ Count(i, AppendedLines) <= 1
            /\ i \in Appended => (Ran(i) /\ presult[i].success)
            /\ pub[i] # "none" => fut[i] = "collected"
            /\ fut[i] # "none" => Count(i, items) = 0)
    /\ [][OncePerItem]_vars

\* every item of a full pending list went once through both stages and the log
C20_Witness ==
    /\ phase = "running"
    /\ ThreadsDone
    /\ Cardinality(Pending) = NItems
    /\ \A i \in Items : fut[i] = "collected" /\ pub[i] = "done"
    /\ \A i \in Items : Count(i, AppendedLines) = 1

\* ------------------------------------ claims on compute() and upload()
\* the items submitted to datasets_to_cog by the step
Dispatched == { i \in Items : fut[i] = "none" /\ fut'[i] = "running" }

\* an iteration of the while loop of compute() submits as many items as the
\* queue has free slots now, or all the items when they are fewer
DispatchStep ==
    (InRun /\ prodPc = "loop" /\ items # << >>) =>
        LET capacity == MAX_QUEUE_SIZE - Len(processed_queue)
        IN  /\ Cardinality(Dispatched) <= capacity
            /\ Len(processed_queue) = MAX_QUEUE_SIZE => Dispatched = {}
            /\ prodPc' # "loop" =>
                  /\ Cardinality(Dispatched) = Min(capacity, Len(items))
                  /\ Len(items') = Len(items) - Cardinality(Dispatched)
            /\ capacity > 0 => ENABLED (prodPc' = "submitted" /\ ProducerDispatch)

\* C21: in every iteration of compute() the capacity is MAX_QUEUE_SIZE minus
\* the size the queue has then, and min(capacity, len(self.items)) items are
\* submitted: never more than the capacity, and none when the queue is full.
C21_DispatchWithinCapacity == [][DispatchStep]_vars

\* the queue had room for fewer items than were pending: MAX_QUEUE_SIZE tasks
\* were submitted and an item stays in self.items
C21_Witness ==
    /\ phase = "running"
    /\ prodPc = "submitted"
    /\ items # << >>
    /\ Cardinality({ i \in Items : fut[i] = "running" }) = MAX_QUEUE_SIZE

\* the upload thread takes a snapshot only of a queue that holds an entry, and
\* each of its gets takes the entry at the front of the queue
DrainStep ==
    /\ (InRun /\ consPc = "snapshot" /\ consVars' # consVars) =>
          /\ processed_queue # << >>
          /\ nget' = Len(processed_queue)
    /\ (InRun /\ consPc = "get" /\ consVars' # consVars) =>
          /\ items_todo' = Append(items_todo, Head(processed_queue))
          /\ processed_queue' = Tail(processed_queue)

\* C22: the upload thread blocks while the queue is empty: every batch it
\* takes is not empty and holds the entries the queue held when its size was
\* read, in queue order.
C22_ConsumerBlocksOnEmpty == [][DrainStep]_vars

\* the items whose upload_to_s3 task is submitted and has not ended
Publishing == { i \in Items : pub[i] = "run" }

\* the items that were put on the queue in this run
Enqueued == { i \in Items : fut[i] = "collected" /\ tresult[i] # "raised" }

\* C23: when the upload thread has found the sentinel, every entry before it
\* has been submitted to upload_to_s3 and nothing of the batch is left; the
\* thread returns only when all these tasks have ended, so no upload_to_s3
\* task runs after the thread has returned.
C23_SentinelDrainsBatch ==
    /\ consPc \in {"exitwait", "done"} =>
          /\ noneTaken
          /\ items_todo = << >>
          /\ \A i \in Enqueued : pub[i] # "none"
          /\ Publishing \subseteq futures
    /\ consPc = "done" => Publishing = {}

\* the last batch held items before the sentinel and the thread has returned
C23_Witness ==
    /\ phase = "running"
    /\ consPc = "done"
    /\ futures # {}
    /\ \A i \in futures : pub[i] = "done"

\* C24: the upload thread takes the next batch only when every upload_to_s3
\* task of the batch before has ended: the tasks that run belong to one batch
\* and are at most MAX_QUEUE_SIZE.
C24_OneBatchInFlight ==
    /\ Publishing \subseteq futures
    /\ Cardinality(futures) <= MAX_QUEUE_SIZE
    /\ Cardinality(Publishing) <= MAX_QUEUE_SIZE
    /\ consPc \in {"snapshot", "get"} => Publishing = {}

\* a batch as large as the queue is in flight
C24_Witness ==
    /\ phase = "running"
    /\ consPc = "wait"
    /\ Cardinality(Publishing) = MAX_QUEUE_SIZE

\* the tasks the executor holds, waiting or executed
InPool == workers \cup Range(work_ids)

\* the staging directory of an item that is on the queue or past it gets
\* nothing new
NoWriteAfterEnqueue ==
    InRun => \A i \in Items :
                (fut[i] = "collected" /\ i \notin staging) => i \notin staging'

\* C25: upload_to_s3 is submitted for an item only after its datasets_to_cog
\* task has returned and the item was put on the queue; from then on no
\* datasets_to_cog task writes to the staging directory of the item, and the
\* two tasks of an item are never in the executor together.
C25_TransformBeforePublish ==
    /\ [](\A i \in Items :
            /\ pub[i] # "none" =>
                  (fut[i] = "collected" /\ tresult[i] \in {"ok", "failed"})
            /\ i \in Range(processed_queue) \cup Range(items_todo) =>
                  (fut[i] = "collected" /\ tresult[i] \in {"ok", "failed"})
            /\ fut[i] = "collected" => CogTask(i) \notin InPool
            /\ ~ (CogTask(i) \in InPool /\ S3Task(i) \in InPool))
    /\ [][NoWriteAfterEnqueue]_vars

\* an upload_to_s3 task is executed while a datasets_to_cog task of another
\* item is executed
C25_Witness ==
    /\ phase = "running"
    /\ \E i, j \in Items : S3Task(i) \in workers /\ CogTask(j) \in workers

\* the item the compute thread puts on the queue in this step
Put(i) ==
    /\ InRun
    /\ fut[i] = "done"
    /\ fut'[i] = "collected"
    /\ processed_queue' = Append(processed_queue, i)

\* the upload thread serves the queue first in, first out
ConsumerFifo ==
    InRun =>
       /\ Len(items_todo') > Len(items_todo) =>
             items_todo' = Append(items_todo, Head(processed_queue))
       /\ \A i \in Items :
             (pub[i] = "none" /\ pub'[i] = "run") =>
                 (items_todo # << >> /\ Head(items_todo) = i)

\* every item is put on the queue when it is the first of the done futures
CompletionOrder == \A i \in Items : Put(i) => Head(finished) = i

\* an item is put on the queue when as_completed yields its future: when it
\* is one of the futures that were done as as_completed was called, or when no
\* such future is left and it is the first of the others that ended
YieldOrder ==
    \A i \in Items :
        Put(i) => \/ i \in early
                  \/ early = {} /\ Head(finished) = i

\* C26 as stated: the items enter the queue in the order in which their
\* datasets_to_cog tasks ended, and the upload thread submits them in queue
\* order.
C26_CompletionOrder == [][CompletionOrder /\ ConsumerFifo]_vars

\* C26 as amended: the items enter the queue in the order as_completed yields
\* their futures, which is the order in which the tasks ended for the tasks
\* that end after as_completed was called, whatever the order of submission;
\* the upload thread submits them in queue order.
C26_YieldOrder == [][YieldOrder /\ ConsumerFifo]_vars

\* both tasks of a batch ended after as_completed was called, the one
\* submitted last ended first and is the next to be put on the queue
C26_Witness ==
    /\ phase = "running"
    /\ prodPc = "await"
    /\ early = {}
    /\ finished = <<NItems - 1, NItems>>

ConstructStep == phase = "idle" /\ phase' = "ready"

\* __init__ finds a cached list and restart does not remove it
CacheKept == items_all_file.exists /\ ~ opts'.restart

\* whenever a cache is kept the list is the cached one and the cache stays as
\* it is; the list is enumerated when no cache is kept
CacheAlwaysUsed ==
    ConstructStep =>
       /\ CacheKept => (items_all' = items_all_file.lines
                          /\ items_all_file' = items_all_file)
       /\ ~ CacheKept => items_all' = Enumerate(source, env', opts')

\* the cached list is used when reuse_full_list is given and a cache is kept;
\* otherwise the list is enumerated; a kept cache is never modified, a new one
\* is written only with reuse_full_list and holds the enumerated list
CacheUsedOnRequest ==
    /\ ConstructStep =>
          /\ (CacheKept /\ opts'.reuse_full_list) => items_all' = items_all_file.lines
          /\ ~ (CacheKept /\ opts'.reuse_full_list) =>
                items_all' = Enumerate(source, env', opts')
          /\ ~ CacheKept =>
                items_all_file' = IF opts'.reuse_full_list
                                  THEN [exists |-> TRUE, lines |-> items_all']
                                  ELSE NoFile
    /\ (phase = "idle" /\ phase' # "idle" /\ CacheKept) =>
          items_all_file' = items_all_file

\* C28 as stated: the full list is enumerated again only when no cache exists
\* or restart has removed it; with a cache and without restart the run uses
\* the cached list and leaves the cache file as it is.
C28_CacheAlwaysUsed == [][CacheAlwaysUsed]_vars

\* C28 as amended: the cached list is used only when reuse_full_list is given
\* and a cache exists that restart has not removed; in every other case the
\* list is enumerated again, also when a cache exists. An existing cache is
\* never modified: it is removed only by restart and written only when
\* reuse_full_list is given and none exists.
C28_CacheUsedOnRequest == [][CacheUsedOnRequest]_vars

\* a run with reuse_full_list took a cached list that is older than the source
C28_Witness ==
    /\ phase = "ready"
    /\ found.cache
    /\ ~ opts.restart
    /\ opts.reuse_full_list
    /\ items_all = items_all_file.lines
    /\ items_all # Enumerated

\* the first day of the month that follows month m of year y
NextMonth(y, m) == IF m = 12 THEN <<y + 1, 1>> ELSE <<y, m + 1>>

\* __init__ has called get_indexed_files with a year
IndexQueried ==
    /\ phase \in {"ready", "aborted"}
    /\ opts.use_datacube
    /\ ~ opts.reuse_full_list
    /\ EnvGood(env)
    /\ sig.year # 0

\* C29: for a year and a month of 1 .. 12 get_indexed_files queries the range
\* from the first day of the month to the first day of the month after it
\* (January of the next year after December) and returns without raising; for
\* a year alone the range is the calendar year.
C29_MonthWindow ==
    IndexQueried =>
       /\ phase = "ready"
       /\ sig.month \in 1 .. 12 =>
             /\ QueryWindow(sig).lo = <<sig.year, sig.month>>
             /\ QueryWindow(sig).hi = NextMonth(sig.year, sig.month)
       /\ sig.month = 0 =>
             /\ QueryWindow(sig).lo = <<sig.year, 1>>
             /\ QueryWindow(sig).hi = <<sig.year + 1, 1>>

\* ------------------------------------------- claims on dea-cogger
\* the ranks of the job and the indexes of its task list
Ranks == 0 .. job_size - 1
Indexes == 0 .. Len(tasks) - 1

InTransform == { i \in Items : fut[i] \in {"running", "done"} }

\* the compute thread is about to put the result of item i on the queue
ItemPutDue(i) ==
    /\ prodPc = "await"
    /\ fut[i] = "done"
    /\ Yielded(i)
    /\ tresult[i] # "raised"

\* C31: the compute thread never blocks when it puts an item: the batch it
\* waits for fits into the free slots of the queue, which the capacity read
\* before the submission has reserved and which the upload thread can only
\* increase, so that the queue is not full whenever an item is put.
C31_ItemPutNeverBlocks ==
    phase = "running" =>
       /\ prodPc \in {"submitted", "await"} =>
             Len(processed_queue) + Cardinality(InTransform) <= MAX_QUEUE_SIZE
       /\ \A i \in Items : ItemPutDue(i) => ~ QueueFull(processed_queue)

\* every item was put on the queue, the last one into the last free slot, and
\* the put of the sentinel blocks on the full queue
C31_Witness ==
    /\ phase = "running"
    /\ prodPc = "sentinel"
    /\ QueueFull(processed_queue)
    /\ \A i \in Items : fut[i] = "collected"
    /\ None \notin Range(processed_queue)

\* the items on the queue
Queued == Range(processed_queue) \ {None}

\* the items of the batch of the upload thread whose upload_to_s3 task has not
\* ended: not yet submitted, or submitted and not done
InBatch == (Range(items_todo) \ {None}) \cup Publishing

\* the items that were submitted to datasets_to_cog and whose upload_to_s3
\* task has not ended, but for those whose conversion raised: their result
\* never reaches the queue
Unfinished ==
    { i \in Items : /\ fut[i] # "none"
                    /\ pub[i] # "done"
                    /\ ~ (fut[i] = "collected" /\ tresult[i] = "raised") }

\* C32: the items that were submitted to datasets_to_cog and whose
\* upload_to_s3 task has not ended are in conversion, on the queue or in the
\* batch of the upload thread; at most MAX_QUEUE_SIZE of them are in
\* conversion or on the queue and at most MAX_QUEUE_SIZE in the batch, so
\* that they are never more than 2 x MAX_QUEUE_SIZE.
C32_InFlightBounded ==
    /\ Unfinished = InTransform \cup Queued \cup InBatch
    /\ Cardinality(InTransform \cup Queued) <= MAX_QUEUE_SIZE
    /\ Cardinality(InBatch) <= MAX_QUEUE_SIZE
    /\ Cardinality(Unfinished) <= 2 * MAX_QUEUE_SIZE

\* more items than the queue can hold are in flight: a batch is being
\* uploaded while the next item is converted, and the pending list is used up
C32_Witness ==
    /\ phase = "running"
    /\ Cardinality(Unfinished) > MAX_QUEUE_SIZE
    /\ Cardinality(InBatch) = MAX_QUEUE_SIZE
    /\ InTransform # {}

\* ------------------------------------ claims on the job control log
\* no entry of the sequence occurs twice
NoDup(s) == \A k, l \in 1 .. Len(s) : s[k] = s[l] => k = l

\* every line of the job control log is an item of the full list, once
LogGood == NoDup(job_file) /\ Range(job_file) \subseteq Range(source)

\* an invocation with neither --restart nor --file_range
Plain(o) == ~ o.restart /\ ~ RangeGiven(o.file_range)

\* a step of an invocation without restart and range, its __init__ included,
\* leaves a good log good
KeepsLogGood == (LogGood /\ Plain(opts')) => LogGood'

\* C33: the job control log of a signature is empty before the first run, and
\* no step of a run that uses neither restart nor a range, with or without a
\* limit and whatever fails, adds an item a second time or adds a line that is
\* not an item of the full list: after any sequence of such runs every item
\* is in the log at most once and every line of the log is in the full list.
C33_LogHasNoDuplicates ==
    /\ (runs = 0 => LogGood)
    /\ [][KeepsLogGood]_vars

\* a later run without restart and range has added its items to the lines of
\* an earlier run, and the log holds every item of the full list once
C33_Witness ==
    /\ phase = "running"
    /\ ThreadsDone
    /\ runs > 1
    /\ Plain(opts)
    /\ log0 # << >>
    /\ Appended # {}
    /\ LogGood
    /\ Range(job_file) = Range(source)

====
